---- MODULE Spec2Model ----
(***************************************************************************)
(* The connection-pool core of src/pool.rs: the registry (POOLS,           *)
(* POOLS_HASH) rebuilt by ConnectionPool::from_config, and on each         *)
(* ConnectionPool the acquisition loop get with its health check, ban,     *)
(* is_banned and try_unban.                                                *)
(*                                                                         *)
(* A ConnectionPool is a handle: cloning it copies Arcs (the bb8 pools and *)
(* the banlist), so the pools live in a heap, keyed by an object id, and   *)
(* the registry maps identifiers to object ids.  Sequences are 1-based     *)
(* here: shard index s of the code is position s + 1.                      *)
(***************************************************************************)
EXTENDS Integers, Sequences, FiniteSets, TLC

\* The clock runs from 0 to MaxTime ticks.
MaxTime == 4

\* Clock ticks per second: NaiveDateTime carries sub-second time, and
\* timestamp() keeps the whole seconds.
TicksPerSecond == 2

Primary == "Primary"
Replica == "Replica"

AllServersDown == "AllServersDown"

----------------------------------------------------------------------------
(* The configuration tree that get_config() yields.                        *)

Server(host, role) == [host |-> host, role |-> role]

Shard(database, servers) == [database |-> database, servers |-> servers]

\* Shard keys are strings of decimal digits; a key is the sequence of its
\* digits, and parse::<i64>() / parse::<usize>() gives its value.
RECURSIVE ParseKey(_)
ParseKey(k) ==
    IF k = <<>> THEN 0
    ELSE 10 * ParseKey(SubSeq(k, 1, Len(k) - 1)) + k[Len(k)]

Hosts == {"h1", "h2", "h3"}

\* One shard: a primary and two replicas.
PoolA ==
    [ users  |-> ("0" :> "u1"),
      shards |-> (<<0>> :> Shard("dbA", <<Server("h1", Primary),
                                          Server("h2", Replica),
                                          Server("h3", Replica)>>)),
      load_balancing_mode |-> "Random",
      default_role |-> "any" ]

\* Two shards and two users: shard 0 holds a primary alone, shard 1 a
\* replica followed by its primary.  No server of it is on h1.
PoolB ==
    [ users  |-> ("0" :> "u1" @@ "1" :> "u2"),
      shards |-> (<<0>> :> Shard("dbB", <<Server("h3", Primary)>>)
               @@ <<1>> :> Shard("dbB", <<Server("h2", Replica),
                                          Server("h3", Primary)>>)),
      load_balancing_mode |-> "Random",
      default_role |-> "replica" ]

PoolConfigs == {PoolA, PoolB}

General(ban_time) ==
    [ ban_time |-> ban_time, healthcheck_delay |-> 30000,
      healthcheck_timeout |-> 1000 ]

PoolNames == {"db1", "db2"}

\* The configurations a reload may read: db1 alone under either pool
\* configuration, and db1 under PoolA with db2 under either.
Configs ==
    { [pools |-> p, general |-> General(1)] :
        p \in { ("db1" :> PoolA), ("db1" :> PoolB),
                ("db1" :> PoolA @@ "db2" :> PoolA),
                ("db1" :> PoolA @@ "db2" :> PoolB) } }

\* The same, and db1 under PoolA with other general settings: the pool
\* configuration is that of the first, the [general] section is not.
ReloadConfigs ==
    Configs \cup
    { [ pools   |-> ("db1" :> PoolA),
        general |-> [ ban_time |-> 2, healthcheck_delay |-> 10000,
                      healthcheck_timeout |-> 500 ] ] }

\* The orders in which a HashMap of the configuration may be iterated: the
\* sequences that enumerate its keys.
Orders(S) ==
    { o \in [1..Cardinality(S) -> S] : \A x \in S : \E i \in DOMAIN o : o[i] = x }

\* The sets of hosts that may be unreachable while a reload validates its
\* pools: none, the replicas' hosts, all.
DownSets == {{}, {"h2", "h3"}, Hosts}

\* The same with the first host alone and the last host alone, which leave
\* every pool an endpoint that is up and take the first endpoint of one.
ValidateDownSets == DownSets \cup {{"h1"}, {"h3"}}

----------------------------------------------------------------------------
(* The program's state.                                                    *)

VARIABLES
    POOLS,        \* the published identifier -> pool map (ids into heap)
    POOLS_HASH,   \* the published set of pool configurations
    heap,         \* the live ConnectionPool cores, by object id
    reload,       \* what the last from_config returned: "none", "ok" or the error
    loaded,       \* the configuration the last successful from_config read
    now,          \* the UTC clock, in ticks
    call,         \* the get call in progress, and what it has done so far
    tasks,        \* the from_config calls in progress: their locals
    unreachable   \* the hosts on which a checkout made by validate fails

vars == <<POOLS, POOLS_HASH, heap, reload, loaded, now, call, tasks, unreachable>>

PoolIdentifier(db, user) == <<db, user>>

Range(f) == { f[x] : x \in DOMAIN f }

\* Option<T>: None is the empty set, Some(x) the singleton.
None == {}
Some(x) == {x}

----------------------------------------------------------------------------
(* from_config: building one fresh ConnectionPool.                         *)

\* sort_by_key(|k| k.parse::<i64>()): a stable sort, here by insertion.
RECURSIVE InsertByKey(_, _)
InsertByKey(k, sorted) ==
    IF sorted = <<>> THEN <<k>>
    ELSE IF ParseKey(k) < ParseKey(Head(sorted)) THEN <<k>> \o sorted
    ELSE <<Head(sorted)>> \o InsertByKey(k, Tail(sorted))

\* Key a sorts before key b as a string.
RECURSIVE LexLess(_, _)
LexLess(a, b) ==
    IF a = <<>> THEN b # <<>>
    ELSE IF b = <<>> THEN FALSE
    ELSE IF a[1] # b[1] THEN a[1] < b[1]
    ELSE LexLess(Tail(a), Tail(b))

\* The sort with the keys compared as strings.
RECURSIVE SortShardIdsLex(_)
SortShardIdsLex(keys) ==
    IF keys = <<>> THEN <<>>
    ELSE LET least == CHOOSE k \in Range(keys) :
                        \A j \in Range(keys) : j = k \/ LexLess(k, j)
         IN  <<least>> \o SortShardIdsLex(SelectSeq(keys, LAMBDA j : j # least))

RECURSIVE SortShardIds(_)
SortShardIds(keys) ==
    IF keys = <<>> THEN <<>>
    ELSE InsertByKey(keys[Len(keys)], SortShardIds(SubSeq(keys, 1, Len(keys) - 1)))

\* The loop over shard.servers: one Address per server, address_id and
\* address_index counting every server, replica_number the replicas.
RECURSIVE ServerLoop(_, _, _, _, _)
ServerLoop(servers, address_index, replica_number, address_id, ctx) ==
    IF address_index >= Len(servers) THEN <<>>
    ELSE LET server  == servers[address_index + 1]
             address == [ id             |-> address_id,
                          database       |-> ctx.database,
                          host           |-> server.host,
                          role           |-> server.role,
                          address_index  |-> address_index,
                          replica_number |-> replica_number,
                          shard          |-> ParseKey(ctx.shard_idx),
                          username       |-> ctx.username,
                          pool_name      |-> ctx.pool_name ]
         IN  <<address>> \o
             ServerLoop(servers, address_index + 1,
                        IF server.role = Replica THEN replica_number + 1
                                                 ELSE replica_number,
                        address_id + 1, ctx)

\* The loop over the sorted shard ids: the addresses of every shard.
RECURSIVE ShardLoop(_, _, _, _, _)
ShardLoop(shard_ids, pool_config, pool_name, username, address_id) ==
    IF shard_ids = <<>> THEN <<>>
    ELSE LET shard_idx == Head(shard_ids)
             shard     == pool_config.shards[shard_idx]
             servers   == ServerLoop(shard.servers, 0, 0, address_id,
                                     [ database  |-> shard.database,
                                       shard_idx |-> shard_idx,
                                       username  |-> username,
                                       pool_name |-> pool_name ])
         IN  <<servers>> \o
             ShardLoop(Tail(shard_ids), pool_config, pool_name, username,
                       address_id + Len(servers))

\* The ConnectionPool built for (pool_name, user): databases holds one bb8
\* pool per address (its manager keeps the address; state is what bb8
\* reports of it, no connection yet), banlist one empty map per shard.  shard_iter is the order into_keys() yields the shard keys in.
BuildPool(pool_name, username, pool_config, general, shard_iter, address_id) ==
    LET shard_ids == SortShardIds(shard_iter)
        addresses == ShardLoop(shard_ids, pool_config, pool_name, username,
                               address_id)
    IN  [ databases   |-> [s \in DOMAIN addresses |->
                             [i \in DOMAIN addresses[s] |->
                                [address |-> addresses[s][i], user |-> username,
                                 state   |-> [connections |-> 0,
                                              idle_connections |-> 0]]]],
          addresses   |-> addresses,
          banlist     |-> [s \in DOMAIN addresses |-> <<>>],
          server_info |-> None,
          settings    |-> [ load_balancing_mode |-> pool_config.load_balancing_mode,
                            shards              |-> Len(shard_ids),
                            user                |-> username,
                            default_role        |->
                                CASE pool_config.default_role = "any"     -> None
                                  [] pool_config.default_role = "replica" -> Some(Replica)
                                  [] pool_config.default_role = "primary" -> Some(Primary),
                            healthcheck_delay   |-> general.healthcheck_delay,
                            healthcheck_timeout |-> general.healthcheck_timeout,
                            ban_time            |-> general.ban_time ] ]

\* The number of addresses of a pool.
RECURSIVE CountAddresses(_)
CountAddresses(addresses) ==
    IF addresses = <<>> THEN 0
    ELSE Len(Head(addresses)) + CountAddresses(Tail(addresses))

\* validate: one checkout per endpoint in (shard, server) order; the
\* payloads of those that succeeded (a server's payload is named by its host).
RECURSIVE ServerInfos(_, _, _, _)
ServerInfos(pool, shard, server, down) ==
    IF shard >= Len(pool.databases) THEN <<>>
    ELSE IF server >= Len(pool.addresses[shard + 1])
         THEN ServerInfos(pool, shard + 1, 0, down)
    ELSE LET host == pool.databases[shard + 1][server + 1].address.host
         IN  (IF host \in down THEN <<>> ELSE <<host>>)
             \o ServerInfos(pool, shard, server + 1, down)

\* A validate that gives up when the checkout of some endpoint fails.
validate_strict(pool, down) ==
    LET server_infos == ServerInfos(pool, 0, 0, down)
    IN  IF CountAddresses(pool.addresses) # Len(server_infos)
        THEN [ok |-> FALSE, err |-> AllServersDown, pool |-> pool]
        ELSE [ok |-> TRUE, err |-> "",
              pool |-> [pool EXCEPT !.server_info = Some(server_infos[1])]]

\* validate's result: the pool with server_info set, or the error.
Validate(pool, down) ==
    LET server_infos == ServerInfos(pool, 0, 0, down)
    IN  IF server_infos = <<>>
        THEN [ok |-> FALSE, err |-> AllServersDown, pool |-> pool]
        ELSE [ok |-> TRUE, err |-> "",
              pool |-> [pool EXCEPT !.server_info = Some(server_infos[1])]]

----------------------------------------------------------------------------
(* from_config: the loops over the configured pools and their users.       *)

\* The iteration orders of one from_config call over configuration cfg: of
\* config.pools, of the users of a pool and of the shards of a pool (each
\* map is iterated in the order its keys have in the chosen enumeration).
IterOrders(cfg) ==
    [ pools  : Orders(DOMAIN cfg.pools),
      users  : Orders(UNION { DOMAIN cfg.pools[n].users : n \in DOMAIN cfg.pools }),
      shards : Orders(UNION { DOMAIN cfg.pools[n].shards : n \in DOMAIN cfg.pools }) ]

Restrict(order, S) == SelectSeq(order, LAMBDA x : x \in S)

\* HashMap::insert: the new value replaces the one of an equal key.
Insert(map, key, value) == (key :> value) @@ map

get_pool(db, user) ==
    IF PoolIdentifier(db, user) \in DOMAIN POOLS
    THEN Some(POOLS[PoolIdentifier(db, user)])
    ELSE None

get_all_pools == POOLS

\* A fresh object: the Arcs allocated for a new ConnectionPool are distinct
\* from those of every live one.  An object is named by the identifier it
\* was built for and a serial number no live object of that identifier has.
FreshId(h, ident) ==
    <<ident, CHOOSE n \in 0..Cardinality(DOMAIN h) :
                /\ <<ident, n>> \notin DOMAIN h
                /\ \A m \in 0..(n - 1) : <<ident, m>> \in DOMAIN h>>

\* A loop over the users that, where the pool has not changed, publishes a
\* copy of the published pool with a banlist of its own in place of a
\* clone of the handle.
RECURSIVE UsersLoopCopies(_, _, _, _, _, _)
UsersLoopCopies(pool_name, pool_config, changed, user_keys, in, acc) ==
    IF user_keys = <<>> \/ acc.err # "" THEN acc
    ELSE LET username == pool_config.users[Head(user_keys)]
             ident    == PoolIdentifier(pool_name, username)
             found    == get_pool(pool_name, username)
             id       == FreshId(acc.heap, ident)
         IN  IF ~changed /\ found # None
             THEN UsersLoopCopies(pool_name, pool_config, changed,
                      Tail(user_keys), in,
                      [acc EXCEPT
                         !.new_pools = Insert(@, ident, id),
                         !.heap      = Insert(@, id,
                                         acc.heap[CHOOSE pool \in found : TRUE])])
             ELSE LET pool == BuildPool(pool_name, username, pool_config,
                                        in.general,
                                        Restrict(in.iter.shards,
                                                 DOMAIN pool_config.shards),
                                        acc.address_id)
                      v    == Validate(pool, in.down)
                  IN  IF ~v.ok THEN [acc EXCEPT !.err = v.err]
                      ELSE UsersLoopCopies(pool_name, pool_config, changed,
                               Tail(user_keys), in,
                               [acc EXCEPT
                                  !.new_pools  = Insert(@, ident, id),
                                  !.heap       = Insert(@, id, v.pool),
                                  !.address_id = @ + CountAddresses(pool.addresses)])

\* for user in pool_config.users.values(): reuse the published pool when the
\* pool's config was already in the set and the identifier is published,
\* else build and validate a fresh one.  acc is what the call has so far:
\* new_pools, address_id, pools_hash, the heap with the fresh pools, and
\* the error it returned with, if any.
RECURSIVE UsersLoop(_, _, _, _, _, _)
UsersLoop(pool_name, pool_config, changed, user_keys, in, acc) ==
    IF user_keys = <<>> \/ acc.err # "" THEN acc
    ELSE LET username == pool_config.users[Head(user_keys)]
             ident    == PoolIdentifier(pool_name, username)
             found    == get_pool(pool_name, username)
         IN  IF ~changed /\ found # None
             THEN UsersLoop(pool_name, pool_config, changed, Tail(user_keys), in,
                      [acc EXCEPT !.new_pools =
                          Insert(@, ident, CHOOSE pool \in found : TRUE)])
             ELSE LET pool == BuildPool(pool_name, username, pool_config,
                                        in.general,
                                        Restrict(in.iter.shards,
                                                 DOMAIN pool_config.shards),
                                        acc.address_id)
                      v    == Validate(pool, in.down)
                      id   == FreshId(acc.heap, ident)
                  IN  IF ~v.ok THEN [acc EXCEPT !.err = v.err]
                      ELSE UsersLoop(pool_name, pool_config, changed,
                               Tail(user_keys), in,
                               [acc EXCEPT
                                  !.new_pools  = Insert(@, ident, id),
                                  !.heap       = Insert(@, id, v.pool),
                                  !.address_id = @ + CountAddresses(pool.addresses)])

\* An insert that always reports the value as new.
insert_always_new(pools_hash, pool_config) == TRUE

\* What pools_hash.insert(pool_config) returns: whether the set did not
\* hold an equal configuration.
insert_was_new(pools_hash, pool_config) == pool_config \notin pools_hash

\* for (pool_name, pool_config) in &config.pools
RECURSIVE PoolsLoop(_, _, _, _)
PoolsLoop(pool_names, cfg, in, acc) ==
    IF pool_names = <<>> \/ acc.err # "" THEN acc
    ELSE LET pool_name   == Head(pool_names)
             pool_config == cfg.pools[pool_name]
             changed     == insert_was_new(acc.pools_hash, pool_config)
             inserted    == [acc EXCEPT !.pools_hash = @ \cup {pool_config}]
         IN  PoolsLoop(Tail(pool_names), cfg, in,
                 UsersLoop(pool_name, pool_config, changed,
                           Restrict(in.iter.users, DOMAIN pool_config.users),
                           in, inserted))

\* from_config with new_pools starting as a copy of the published map.
from_config_keep(cfg, iter, down) ==
    PoolsLoop(Restrict(iter.pools, DOMAIN cfg.pools), cfg,
              [general |-> cfg.general, iter |-> iter, down |-> down],
              [ new_pools  |-> POOLS,
                address_id |-> 0,
                pools_hash |-> POOLS_HASH,
                heap       |-> heap,
                err        |-> "" ])

\* What from_config computes from the configuration it reads, before it
\* publishes.
from_config(cfg, iter, down) ==
    PoolsLoop(Restrict(iter.pools, DOMAIN cfg.pools), cfg,
              [general |-> cfg.general, iter |-> iter, down |-> down],
              [ new_pools  |-> <<>>,
                address_id |-> 0,
                pools_hash |-> POOLS_HASH,
                heap       |-> heap,
                err        |-> "" ])

----------------------------------------------------------------------------
(* ban, is_banned, try_unban.                                              *)

\* NaiveDateTime::timestamp(): the whole seconds of an instant.
Timestamp(t) == t \div TicksPerSecond

\* ban with the guard on the role left out.
ban_no_guard(pool, address, client_id, t) ==
    [banlist |-> [pool.banlist EXCEPT ![address.shard + 1] = Insert(@, address, t)],
     stats   |-> << <<"client_ban_error", client_id, address.id>> >>]

\* ban with the guard on the role inverted.
ban_inverted_guard(pool, address, client_id, t) ==
    IF address.role = Replica
    THEN [banlist |-> pool.banlist, stats |-> <<>>]
    ELSE ban_no_guard(pool, address, client_id, t)

\* The banlist after ban(address, client_id) at instant t, and the events
\* it emits.
ban(pool, address, client_id, t) ==
    IF address.role = Primary
    THEN [banlist |-> pool.banlist, stats |-> <<>>]
    ELSE [banlist |-> [pool.banlist EXCEPT ![address.shard + 1] =
                           Insert(@, address, t)],
          stats   |-> << <<"client_ban_error", client_id, address.id>> >>]

is_banned(pool, address) == address \in DOMAIN pool.banlist[address.shard + 1]

Remove(map, key) == [k \in DOMAIN map \ {key} |-> map[k]]

\* The count with every server of the shard counted, not the replicas only.
replicas_available_all(pool, address) ==
    Len(pool.addresses[address.shard + 1])

\* The number of replicas configured for the shard of the address.
replicas_available(pool, address) ==
    Cardinality({ i \in DOMAIN pool.addresses[address.shard + 1] :
                    pool.addresses[address.shard + 1][i].role = Replica })

\* The test with >= for >.
exceeded_ban_time_ge(timestamp, t, ban_time) ==
    Timestamp(t) - Timestamp(timestamp) >= ban_time

\* The test on the instants themselves, not on their whole seconds.
exceeded_ban_time_subsec(timestamp, t, ban_time) ==
    t - timestamp > ban_time * TicksPerSecond

\* now.timestamp() - timestamp.timestamp() > self.settings.ban_time
exceeded_ban_time(timestamp, t, ban_time) ==
    Timestamp(t) - Timestamp(timestamp) > ban_time

\* try_unban whose bulk clear empties the vector of maps, not the shard's map.
try_unban_clears_vec(pool, address, t) ==
    LET guard == pool.banlist[address.shard + 1]
    IN  IF address.role = Primary
        THEN [ret |-> TRUE, banlist |-> pool.banlist]
        ELSE IF Cardinality(DOMAIN guard) = replicas_available(pool, address)
        THEN [ret |-> TRUE, banlist |-> <<>>]
        ELSE IF address \notin DOMAIN guard
        THEN [ret |-> TRUE, banlist |-> pool.banlist]
        ELSE IF exceeded_ban_time(guard[address], t, pool.settings.ban_time)
        THEN [ret |-> TRUE,
              banlist |-> [pool.banlist EXCEPT ![address.shard + 1] =
                              Remove(@, address)]]
        ELSE [ret |-> FALSE, banlist |-> pool.banlist]

\* try_unban(address) at instant t: what it returns and the banlist it leaves.
try_unban(pool, address, t) ==
    LET guard == pool.banlist[address.shard + 1]
        all_replicas_banned ==
            Cardinality(DOMAIN guard) = replicas_available(pool, address)
    IN  IF address.role = Primary
        THEN [ret |-> TRUE, banlist |-> pool.banlist]
        ELSE IF all_replicas_banned
        THEN [ret |-> TRUE,
              banlist |-> [pool.banlist EXCEPT ![address.shard + 1] = <<>>]]
        ELSE IF address \notin DOMAIN guard
        THEN [ret |-> TRUE, banlist |-> pool.banlist]
        ELSE IF exceeded_ban_time(guard[address], t, pool.settings.ban_time)
        THEN [ret |-> TRUE,
              banlist |-> [pool.banlist EXCEPT ![address.shard + 1] =
                              Remove(@, address)]]
        ELSE [ret |-> FALSE, banlist |-> pool.banlist]

----------------------------------------------------------------------------
(* The operations.                                                         *)

ClientPids == {1}

\* The client's call: no call in progress.  Of a get call, tried lists the
\* candidates it is done with, stats the events it emitted, banned the
\* addresses of the shard that were banned when the call began and busy the
\* busy count it saw of each candidate when it ordered them; of a try_unban
\* call, before is the shard's ban map as the call found it.
IdleCall ==
    [ pc |-> "idle", pool |-> <<>>, shard |-> 0, role |-> Primary, client |-> 0,
      candidates |-> <<>>, address |-> None, force_healthcheck |-> FALSE,
      conn |-> None, result |-> None, tried |-> <<>>, stats |-> <<>>,
      before |-> <<>>, banned |-> {}, busy |-> <<>> ]

\* The cores some handle still refers to: the published ones and the one
\* the caller of get holds.
Live(h, pools, c) ==
    LET held == Range(pools) \cup (IF c.pc = "idle" THEN {} ELSE {c.pool})
    IN  [id \in DOMAIN h \cap held |-> h[id]]

\* The tasks that may run from_config at the same time (the startup path and
\* a reload on a signal, or two reloads).
Reloaders == {1, 2}

\* A from_config call that has not begun: its locals are empty.
IdleTask ==
    [ pc |-> "idle", config |-> None, new_pools |-> <<>>, pools_hash |-> {} ]

Init ==
    /\ POOLS = <<>>
    /\ POOLS_HASH = {}
    /\ heap = <<>>
    /\ reload = "none"
    /\ loaded = None
    /\ now = 0
    /\ call = IdleCall
    /\ tasks = [r \in Reloaders |-> IdleTask]
    /\ unreachable = {}

\* from_config storing the configuration set before it validates.
FromConfigStoresHashFirst(cfg, iter, down) ==
    LET r == from_config(cfg, iter, down)
    IN  /\ POOLS_HASH' = r.pools_hash
        /\ IF r.err = ""
           THEN /\ POOLS' = r.new_pools
                /\ heap' = Live(r.heap, r.new_pools, call)
                /\ reload' = "ok"
                /\ loaded' = Some(cfg)
           ELSE /\ reload' = r.err
                /\ UNCHANGED <<POOLS, heap, loaded>>
        /\ UNCHANGED <<now, call, tasks, unreachable>>

\* ConnectionPool::from_config, reading configuration cfg: on success the
\* two stores publish new_pools and pools_hash; on a validation error
\* nothing is stored.
FromConfig(cfg, iter, down) ==
    LET r == from_config(cfg, iter, down)
    IN  /\ IF r.err = ""
           THEN /\ POOLS' = r.new_pools
                /\ POOLS_HASH' = r.pools_hash
                /\ heap' = Live(r.heap, r.new_pools, call)
                /\ reload' = "ok"
                /\ loaded' = Some(cfg)
           ELSE /\ reload' = r.err
                /\ UNCHANGED <<POOLS, POOLS_HASH, heap, loaded>>
        /\ UNCHANGED <<now, call, tasks, unreachable>>

\* Hosts go down or come back: from now on the checkouts of validate fail
\* on the hosts of down, and on no other.
HostsChange(down) ==
    /\ down # unreachable
    /\ unreachable' = down
    /\ UNCHANGED <<POOLS, POOLS_HASH, heap, reload, loaded, now, call, tasks>>

\* The clock advances.
Tick ==
    /\ now < MaxTime
    /\ now' = now + 1
    /\ UNCHANGED <<POOLS, POOLS_HASH, heap, reload, loaded, call, tasks, unreachable>>

\* pool_state(shard, server): the state bb8 reports of one of its pools.
pool_state(pool, shard, server) == pool.databases[shard + 1][server + 1].state

\* busy_connection_count(address)
busy_connection_count(pool, address) ==
    LET state       == pool_state(pool, address.shard, address.address_index)
        idle        == state.idle_connections
        provisioned == state.connections
    IN  IF idle > provisioned THEN 0 ELSE provisioned - idle

\* One step of the stable sort: x goes after the elements that are not
\* less busy than it.
RECURSIVE InsertByBusy(_, _, _)
InsertByBusy(pool, x, sorted) ==
    IF sorted = <<>> THEN <<x>>
    ELSE IF busy_connection_count(pool, Head(sorted))
              >= busy_connection_count(pool, x)
         THEN <<Head(sorted)>> \o InsertByBusy(pool, x, Tail(sorted))
         ELSE <<x>> \o sorted

\* The sort with the comparison the other way round: least busy first.
RECURSIVE SortByBusyAscending(_, _)
SortByBusyAscending(pool, candidates) ==
    IF candidates = <<>> THEN <<>>
    ELSE LET least == CHOOSE i \in DOMAIN candidates :
                        \A j \in DOMAIN candidates :
                          busy_connection_count(pool, candidates[i])
                            <= busy_connection_count(pool, candidates[j])
         IN  <<candidates[least]>> \o
             SortByBusyAscending(pool,
                 SubSeq(candidates, 1, least - 1)
                   \o SubSeq(candidates, least + 1, Len(candidates)))

\* candidates.sort_by(|a, b| busy(b).partial_cmp(&busy(a))): stable, the
\* busiest first.
RECURSIVE SortByBusy(_, _)
SortByBusy(pool, candidates) ==
    IF candidates = <<>> THEN <<>>
    ELSE InsertByBusy(pool, candidates[Len(candidates)],
                      SortByBusy(pool, SubSeq(candidates, 1, Len(candidates) - 1)))

\* get(shard, role, client_process_id) on the handle get_pool gave: the
\* candidates of the role, shuffled, and under LeastOutstandingConnections
\* sorted by their busy counts.
GetStart(p, shard, role, client_process_id, shuffled) ==
    /\ call.pc = "idle"
    /\ call' = [IdleCall EXCEPT
                  !.pc = "loop", !.pool = p, !.shard = shard,
                  !.role = role, !.client = client_process_id,
                  !.candidates =
                      IF heap[p].settings.load_balancing_mode
                            = "LeastOutstandingConnections"
                      THEN SortByBusy(heap[p], shuffled)
                      ELSE shuffled,
                  !.banned = DOMAIN heap[p].banlist[shard + 1],
                  !.busy = [a \in Range(shuffled) |->
                              busy_connection_count(heap[p], a)]]
    /\ UNCHANGED <<POOLS, POOLS_HASH, heap, reload, loaded, now, tasks, unreachable>>

\* The candidates with the filter on the role left out.
CandidatesAnyRole(pool, shard, role) ==
    Range(pool.addresses[shard + 1])

\* self.addresses[shard].iter().filter(|address| address.role == role)
Candidates(pool, shard, role) ==
    { pool.addresses[shard + 1][i] : i \in
        { j \in DOMAIN pool.addresses[shard + 1] :
            pool.addresses[shard + 1][j].role = role } }

Attempt(address, outcome, forced, checked, bad) ==
    [ address |-> address, outcome |-> outcome, forced |-> forced,
      checked |-> checked, bad |-> bad ]

\* A pop that leaves the vector as it is.
pop_keeps(candidates) == candidates

\* candidates.pop(): the vector without its last element.
pop(candidates) == SubSeq(candidates, 1, Len(candidates) - 1)

\* The head of the trial loop: return AllServersDown when no candidate is
\* left, else pop the last one and, if it is banned, try to unban it.
GetPop ==
    /\ call.pc = "loop"
    /\ IF call.candidates = <<>>
       THEN /\ call' = [call EXCEPT !.pc = "done",
                            !.result = Some([ok |-> FALSE, err |-> AllServersDown])]
            /\ UNCHANGED heap
       ELSE LET pool    == heap[call.pool]
                address == call.candidates[Len(call.candidates)]
                rest    == pop(call.candidates)
                waiting == << <<"client_waiting", call.client>> >>
            IN  IF is_banned(pool, address)
                THEN LET u == try_unban(pool, address, now)
                     IN  /\ heap' = [heap EXCEPT ![call.pool].banlist = u.banlist]
                         /\ IF u.ret
                            THEN call' = [call EXCEPT !.pc = "checkout",
                                             !.candidates = rest,
                                             !.address = Some(address),
                                             !.force_healthcheck = TRUE,
                                             !.stats = @ \o waiting]
                            ELSE call' = [call EXCEPT !.candidates = rest,
                                             !.address = Some(address),
                                             !.force_healthcheck = FALSE,
                                             !.tried = Append(@,
                                                 Attempt(address, "banned",
                                                         FALSE, FALSE, FALSE))]
                ELSE /\ call' = [call EXCEPT !.pc = "checkout",
                                     !.candidates = rest,
                                     !.address = Some(address),
                                     !.force_healthcheck = FALSE,
                                     !.stats = @ \o waiting]
                     /\ UNCHANGED heap
    /\ UNCHANGED <<POOLS, POOLS_HASH, reload, loaded, now, tasks, unreachable>>

TheAddress(c) == CHOOSE a \in c.address : TRUE

\* The test without force_healthcheck: the age of the session alone.
require_healthcheck_by_age(force_healthcheck, stale) == stale

\* force_healthcheck || last_activity().elapsed() > healthcheck_delay
\* (stale: the session's last activity is older than healthcheck_delay).
require_healthcheck(force_healthcheck, stale) == force_healthcheck \/ stale

\* databases[address.shard][address.address_index].get() returned: on an
\* error the address is banned; else the session is returned at once unless
\* a health check is forced or its last activity is older than
\* healthcheck_delay (stale).
GetCheckout(ok, stale) ==
    /\ call.pc = "checkout"
    /\ LET pool    == heap[call.pool]
           address == TheAddress(call)
           slot    == pool.databases[address.shard + 1][address.address_index + 1]
       IN  IF ~ok
           THEN LET b == ban(pool, address, call.client, now)
                IN  /\ heap' = [heap EXCEPT ![call.pool].banlist = b.banlist]
                    /\ call' = [call EXCEPT !.pc = "loop",
                                    !.stats = @ \o b.stats \o
                                        << <<"client_checkout_error", call.client,
                                             address.id>> >>,
                                    !.tried = Append(@,
                                        Attempt(address, "checkout_error",
                                                call.force_healthcheck, FALSE, FALSE))]
           ELSE LET conn == [address |-> slot.address, bad |-> FALSE]
                IN  /\ UNCHANGED heap
                    /\ IF ~require_healthcheck(call.force_healthcheck, stale)
                       THEN call' = [call EXCEPT !.pc = "done",
                                        !.conn = Some(conn),
                                        !.stats = @ \o
                                            << <<"checkout_time", call.client>>,
                                               <<"server_active", call.client>> >>,
                                        !.result = Some([ok |-> TRUE, conn |-> conn,
                                                         address |-> address]),
                                        !.tried = Append(@,
                                            Attempt(address, "leased",
                                                    call.force_healthcheck,
                                                    FALSE, FALSE))]
                       ELSE call' = [call EXCEPT !.pc = "healthcheck",
                                        !.conn = Some(conn)]
    /\ UNCHANGED <<POOLS, POOLS_HASH, reload, loaded, now, tasks, unreachable>>

HealthOutcomes == {"ok", "error", "timeout"}

\* run_health_check: the query succeeded within healthcheck_timeout, failed,
\* or timed out; a failure marks the session bad and bans the address.
GetHealth(outcome) ==
    /\ call.pc = "healthcheck"
    /\ LET pool    == heap[call.pool]
           address == TheAddress(call)
           conn    == CHOOSE c \in call.conn : TRUE
           tested  == << <<"server_tested">> >>
       IN  IF outcome = "ok"
           THEN /\ call' = [call EXCEPT !.pc = "done",
                                !.stats = @ \o tested \o
                                    << <<"checkout_time", call.client>>,
                                       <<"server_active", call.client>> >>,
                                !.result = Some([ok |-> TRUE, conn |-> conn,
                                                 address |-> address]),
                                !.tried = Append(@,
                                    Attempt(address, "leased",
                                            call.force_healthcheck, TRUE, FALSE))]
                /\ UNCHANGED heap
           ELSE LET b      == ban(pool, address, call.client, now)
                    marked == [conn EXCEPT !.bad = TRUE]
                IN  /\ heap' = [heap EXCEPT ![call.pool].banlist = b.banlist]
                    /\ call' = [call EXCEPT !.pc = "loop",
                                    !.conn = Some(marked),
                                    !.stats = @ \o tested \o b.stats,
                                    !.tried = Append(@,
                                        Attempt(address, "healthcheck_failed",
                                                call.force_healthcheck, TRUE,
                                                marked.bad))]
    /\ UNCHANGED <<POOLS, POOLS_HASH, reload, loaded, now, tasks, unreachable>>

\* The caller of get, holding a lease, bans the address it was given (the
\* server failed under it).
ClientBan ==
    /\ call.pc = "done"
    /\ \E r \in call.result :
         /\ r.ok
         /\ LET b == ban(heap[call.pool], r.address, call.client, now)
            IN  /\ heap' = [heap EXCEPT ![call.pool].banlist = b.banlist]
                /\ call' = [call EXCEPT !.pc = "banned", !.stats = @ \o b.stats]
    /\ UNCHANGED <<POOLS, POOLS_HASH, reload, loaded, now, tasks, unreachable>>

\* The client calls try_unban(address) on the handle get_pool gave.
ClientTryUnban(p, address) ==
    /\ call.pc = "idle"
    /\ LET u == try_unban(heap[p], address, now)
       IN  /\ heap' = [heap EXCEPT ![p].banlist = u.banlist]
           /\ call' = [IdleCall EXCEPT !.pc = "unban", !.pool = p,
                                       !.address = Some(address),
                                       !.result = Some([ok |-> u.ret]),
                                       !.before = heap[p].banlist[address.shard + 1]]
    /\ UNCHANGED <<POOLS, POOLS_HASH, reload, loaded, now, tasks, unreachable>>

\* The caller drops the lease and its handle.
Release ==
    /\ call.pc \in {"done", "banned", "unban"}
    /\ call' = IdleCall
    /\ heap' = Live(heap, POOLS, IdleCall)
    /\ UNCHANGED <<POOLS, POOLS_HASH, reload, loaded, now, tasks, unreachable>>

AddressesOf(pool) ==
    UNION { Range(pool.addresses[s]) : s \in DOMAIN pool.addresses }

\* Another task bans an address of a pool, or tries to unban it.
OtherBan(p, address) ==
    /\ heap' = [heap EXCEPT ![p].banlist = ban(heap[p], address, 0, now).banlist]
    /\ UNCHANGED <<POOLS, POOLS_HASH, reload, loaded, now, call, tasks, unreachable>>

OtherTryUnban(p, address) ==
    /\ heap' = [heap EXCEPT ![p].banlist = try_unban(heap[p], address, now).banlist]
    /\ UNCHANGED <<POOLS, POOLS_HASH, reload, loaded, now, call, tasks, unreachable>>

\* The first from_config of the process, at startup, with every host up.
Startup(cfg, iter) ==
    /\ reload = "none"
    /\ FromConfig(cfg, iter, {})

\* The configurations with the one pool db1.
StartConfigs == { cfg \in Configs : DOMAIN cfg.pools = {"db1"} }

\* Reloads of the registry, with other tasks banning and unbanning on the
\* published pools.
Next ==
    \/ \E cfg \in ReloadConfigs : \E iter \in IterOrders(cfg) :
         FromConfig(cfg, iter, unreachable)
    \/ \E down \in DownSets : HostsChange(down)
    \/ \E p \in DOMAIN heap : \E address \in AddressesOf(heap[p]) :
         OtherBan(p, address)
    \/ \E p \in DOMAIN heap : \E address \in AddressesOf(heap[p]) :
         OtherTryUnban(p, address)

Spec == Init /\ [][Next]_vars

\* Acquisitions on the pools of a loaded registry, while the clock runs and
\* other tasks ban and unban.
NextPool ==
    \/ \E cfg \in StartConfigs : \E iter \in IterOrders(cfg) : Startup(cfg, iter)
    \/ Tick
    \/ \E p \in Range(POOLS), role \in {Primary, Replica}, pid \in ClientPids :
         \E shard \in 0..(Len(heap[p].addresses) - 1) :
           \E shuffled \in Orders(Candidates(heap[p], shard, role)) :
             GetStart(p, shard, role, pid, shuffled)
    \/ GetPop
    \/ \E ok \in BOOLEAN, stale \in BOOLEAN : GetCheckout(ok, stale)
    \/ \E outcome \in HealthOutcomes : GetHealth(outcome)
    \/ ClientBan
    \/ \E p \in Range(POOLS) : \E address \in AddressesOf(heap[p]) :
         ClientTryUnban(p, address)
    \/ Release
    \/ \E p \in DOMAIN heap : \E address \in AddressesOf(heap[p]) :
         OtherBan(p, address)
    \/ \E p \in DOMAIN heap : \E address \in AddressesOf(heap[p]) :
         OtherTryUnban(p, address)

SpecPool == Init /\ [][NextPool]_vars

\* The same, with every step of a get call in progress taken in the end:
\* try_unban takes its locks and returns, a checkout completes within
\* connect_timeout and a health check within healthcheck_timeout.
SpecPoolLive ==
    /\ SpecPool
    /\ WF_vars(GetPop)
    /\ WF_vars(\E ok \in BOOLEAN, stale \in BOOLEAN : GetCheckout(ok, stale))
    /\ WF_vars(\E outcome \in HealthOutcomes : GetHealth(outcome))

\* Acquisitions of one client with no other task at work on the pools: the
\* banlist changes by this client's calls alone.
NextSolo ==
    \/ \E cfg \in StartConfigs : \E iter \in IterOrders(cfg) : Startup(cfg, iter)
    \/ Tick
    \/ \E p \in Range(POOLS), role \in {Primary, Replica}, pid \in ClientPids :
         \E shard \in 0..(Len(heap[p].addresses) - 1) :
           \E shuffled \in Orders(Candidates(heap[p], shard, role)) :
             GetStart(p, shard, role, pid, shuffled)
    \/ GetPop
    \/ \E ok \in BOOLEAN, stale \in BOOLEAN : GetCheckout(ok, stale)
    \/ \E outcome \in HealthOutcomes : GetHealth(outcome)
    \/ ClientBan
    \/ \E p \in Range(POOLS) : \E address \in AddressesOf(heap[p]) :
         ClientTryUnban(p, address)
    \/ Release

SpecSolo == Init /\ [][NextSolo]_vars

----------------------------------------------------------------------------
(* Acquisitions under LeastOutstandingConnections, while other clients     *)
(* check sessions out of the bb8 pools and return them.                    *)

\* The user's pool_size: the max_size of each bb8 pool.
pool_size == 4

\* One shard of two replicas, balanced by outstanding connections.
PoolL ==
    [ users  |-> ("0" :> "u1"),
      shards |-> (<<0>> :> Shard("dbL", <<Server("h2", Replica),
                                          Server("h3", Replica)>>)),
      load_balancing_mode |-> "LeastOutstandingConnections",
      default_role |-> "replica" ]

LocConfigs == { [pools |-> ("db1" :> PoolL), general |-> General(1)] }

\* Another client checks a session out of the bb8 pool of an address: an
\* idle connection becomes busy, or a new one is opened.
OtherCheckout(p, address) ==
    /\ LET s     == address.shard + 1
           i     == address.address_index + 1
           state == heap[p].databases[s][i].state
       IN  /\ state.idle_connections > 0 \/ state.connections < pool_size
           /\ heap' = [heap EXCEPT ![p].databases[s][i].state =
                         IF state.idle_connections > 0
                         THEN [state EXCEPT !.idle_connections = @ - 1]
                         ELSE [state EXCEPT !.connections = @ + 1]]
    /\ UNCHANGED <<POOLS, POOLS_HASH, reload, loaded, now, call, tasks, unreachable>>

\* Another client returns the session it held: the connection is idle again.
OtherReturn(p, address) ==
    /\ LET s     == address.shard + 1
           i     == address.address_index + 1
           state == heap[p].databases[s][i].state
       IN  /\ state.idle_connections < state.connections
           /\ heap' = [heap EXCEPT ![p].databases[s][i].state.idle_connections =
                         @ + 1]
    /\ UNCHANGED <<POOLS, POOLS_HASH, reload, loaded, now, call, tasks, unreachable>>

NextLoc ==
    \/ \E cfg \in LocConfigs : \E iter \in IterOrders(cfg) : Startup(cfg, iter)
    \/ \E p \in Range(POOLS), role \in {Primary, Replica}, pid \in ClientPids :
         \E shard \in 0..(Len(heap[p].addresses) - 1) :
           \E shuffled \in Orders(Candidates(heap[p], shard, role)) :
             GetStart(p, shard, role, pid, shuffled)
    \/ GetPop
    \/ \E ok \in BOOLEAN, stale \in BOOLEAN : GetCheckout(ok, stale)
    \/ \E outcome \in HealthOutcomes : GetHealth(outcome)
    \/ Release
    \/ \E p \in DOMAIN heap : \E address \in AddressesOf(heap[p]) :
         OtherCheckout(p, address)
    \/ \E p \in DOMAIN heap : \E address \in AddressesOf(heap[p]) :
         OtherReturn(p, address)

SpecLoc == Init /\ [][NextLoc]_vars

----------------------------------------------------------------------------
(* try_unban lock by lock: each reader or writer hold is one step, and     *)
(* other tasks run between them.                                           *)

\* try_unban(address) up to the end of its first reader hold: a primary
\* returns true at once; else the call counts the replicas, reads the
\* length of the shard's ban map and drops the reader.
TryUnbanBegin(p, address) ==
    /\ call.pc = "idle"
    /\ LET pool  == heap[p]
           guard == pool.banlist[address.shard + 1]
           all_replicas_banned ==
               Cardinality(DOMAIN guard) = replicas_available(pool, address)
           c     == [IdleCall EXCEPT !.pool = p, !.address = Some(address),
                                     !.before = guard]
       IN  call' = IF address.role = Primary
                   THEN [c EXCEPT !.pc = "unban", !.result = Some([ok |-> TRUE])]
                   ELSE IF all_replicas_banned
                   THEN [c EXCEPT !.pc = "unban_clear"]
                   ELSE [c EXCEPT !.pc = "unban_check"]
    /\ UNCHANGED <<POOLS, POOLS_HASH, heap, reload, loaded, now, tasks, unreachable>>

\* if all_replicas_banned: the writer hold clears the shard's map; true.
TryUnbanClear ==
    /\ call.pc = "unban_clear"
    /\ heap' = [heap EXCEPT ![call.pool].banlist[TheAddress(call).shard + 1] = <<>>]
    /\ call' = [call EXCEPT !.pc = "unban", !.result = Some([ok |-> TRUE])]
    /\ UNCHANGED <<POOLS, POOLS_HASH, reload, loaded, now, tasks, unreachable>>

\* The second reader hold: no entry returns true; else the entry's age is
\* compared with ban_time, and an entry not old enough returns false.
TryUnbanCheck ==
    /\ call.pc = "unban_check"
    /\ LET pool    == heap[call.pool]
           address == TheAddress(call)
           guard   == pool.banlist[address.shard + 1]
       IN  call' = IF address \notin DOMAIN guard
                   THEN [call EXCEPT !.pc = "unban", !.result = Some([ok |-> TRUE])]
                   ELSE IF exceeded_ban_time(guard[address], now,
                                             pool.settings.ban_time)
                   THEN [call EXCEPT !.pc = "unban_remove", !.before = guard]
                   ELSE [call EXCEPT !.pc = "unban", !.result = Some([ok |-> FALSE])]
    /\ UNCHANGED <<POOLS, POOLS_HASH, heap, reload, loaded, now, tasks, unreachable>>

\* if exceeded_ban_time: the writer hold removes the entry; true.
TryUnbanRemove ==
    /\ call.pc = "unban_remove"
    /\ heap' = [heap EXCEPT ![call.pool].banlist[TheAddress(call).shard + 1] =
                  Remove(@, TheAddress(call))]
    /\ call' = [call EXCEPT !.pc = "unban", !.result = Some([ok |-> TRUE])]
    /\ UNCHANGED <<POOLS, POOLS_HASH, reload, loaded, now, tasks, unreachable>>

NextUnban ==
    \/ \E cfg \in StartConfigs : \E iter \in IterOrders(cfg) : Startup(cfg, iter)
    \/ Tick
    \/ \E p \in Range(POOLS) : \E address \in AddressesOf(heap[p]) :
         TryUnbanBegin(p, address)
    \/ TryUnbanClear
    \/ TryUnbanCheck
    \/ TryUnbanRemove
    \/ Release
    \/ \E p \in DOMAIN heap : \E address \in AddressesOf(heap[p]) :
         OtherBan(p, address)
    \/ \E p \in DOMAIN heap : \E address \in AddressesOf(heap[p]) :
         OtherTryUnban(p, address)

SpecUnban == Init /\ [][NextUnban]_vars

----------------------------------------------------------------------------
(* One pool built from each of a family of configurations.                 *)

\* A shard has 1 to MaxServers servers.
MaxServers == 4

\* The shard keys a configuration may use.
ShardKeys == {<<0>>, <<1>>, <<2>>, <<1, 0>>}

\* The roles of the servers of a shard, in the configured order.
RoleLists == UNION { [1..n -> {Primary, Replica}] : n \in 1..MaxServers }

\* The pool configuration with the given shard keys, every shard with
\* servers of the given roles; a shard's database is named after its key.
KeyedPool(keys, roles) ==
    [ users  |-> ("0" :> "u1"),
      shards |-> [k \in keys |->
                    Shard(k, [i \in DOMAIN roles |-> Server("h1", roles[i])])],
      load_balancing_mode |-> "Random",
      default_role |-> "any" ]

BuildConfigs ==
    { [pools |-> ("db1" :> KeyedPool(keys, roles)), general |-> General(1)] :
        keys \in (SUBSET ShardKeys) \ {{}}, roles \in RoleLists }

\* self.databases[address.shard][address.address_index], as get evaluates
\* it for the candidate it selected: the bb8 pool at that position, or the
\* panic of an index out of bounds.
IndexDatabases(p, address) ==
    /\ call.pc = "idle"
    /\ LET pool     == heap[p]
           in_range == /\ address.shard + 1 \in DOMAIN pool.databases
                       /\ address.address_index + 1
                            \in DOMAIN pool.databases[address.shard + 1]
       IN  call' = [IdleCall EXCEPT
                      !.pc = "indexed", !.pool = p, !.address = Some(address),
                      !.conn = IF in_range
                               THEN Some([address |->
                                            pool.databases[address.shard + 1]
                                                [address.address_index + 1].address,
                                          bad |-> FALSE])
                               ELSE None,
                      !.result = Some([ok |-> in_range])]
    /\ UNCHANGED <<POOLS, POOLS_HASH, heap, reload, loaded, now, tasks, unreachable>>

NextBuild ==
    \/ \E cfg \in BuildConfigs : \E iter \in IterOrders(cfg) : Startup(cfg, iter)
    \/ \E p \in Range(POOLS) : \E address \in AddressesOf(heap[p]) :
         IndexDatabases(p, address)

SpecBuild == Init /\ [][NextBuild]_vars

----------------------------------------------------------------------------
(* from_config step by step, run by two tasks at once.                     *)

\* The cores a handle still refers to when from_config calls are in
\* progress: the published ones and those in the tasks' new_pools.
LiveTasks(h, pools, ts) ==
    LET held == Range(pools) \cup UNION { Range(ts[r].new_pools) : r \in DOMAIN ts }
    IN  [id \in DOMAIN h \cap held |-> h[id]]

\* Task r runs from_config up to its stores: it reads the configuration,
\* clones POOLS_HASH, and builds or reuses a pool for every user; a
\* validation error ends the call.
ReloadBuild(r, cfg, iter, down) ==
    /\ tasks[r].pc = "idle"
    /\ LET res == from_config(cfg, iter, down)
       IN  IF res.err = ""
           THEN /\ tasks' = [tasks EXCEPT ![r] =
                               [ pc |-> "store_pools", config |-> Some(cfg),
                                 new_pools |-> res.new_pools,
                                 pools_hash |-> res.pools_hash ]]
                /\ heap' = LiveTasks(res.heap, POOLS, tasks')
                /\ UNCHANGED reload
           ELSE /\ tasks' = [tasks EXCEPT ![r].pc = "failed",
                                        ![r].config = Some(cfg)]
                /\ reload' = res.err
                /\ UNCHANGED heap
    /\ UNCHANGED <<POOLS, POOLS_HASH, loaded, now, call, unreachable>>

\* POOLS.store(Arc::new(new_pools.clone()))
ReloadStorePools(r) ==
    /\ tasks[r].pc = "store_pools"
    /\ POOLS' = tasks[r].new_pools
    /\ tasks' = [tasks EXCEPT ![r].pc = "store_hash"]
    /\ heap' = LiveTasks(heap, POOLS', tasks')
    /\ UNCHANGED <<POOLS_HASH, reload, loaded, now, call, unreachable>>

\* POOLS_HASH.store(Arc::new(pools_hash.clone())); Ok(())
ReloadStoreHash(r) ==
    /\ tasks[r].pc = "store_hash"
    /\ POOLS_HASH' = tasks[r].pools_hash
    /\ tasks' = [tasks EXCEPT ![r].pc = "returned"]
    /\ reload' = "ok"
    /\ loaded' = tasks[r].config
    /\ UNCHANGED <<POOLS, heap, now, call, unreachable>>

\* Each task calls from_config once.
NextReload ==
    \/ \E r \in Reloaders, cfg \in Configs :
         \E iter \in IterOrders(cfg) : ReloadBuild(r, cfg, iter, unreachable)
    \/ \E down \in ValidateDownSets : HostsChange(down)
    \/ \E r \in Reloaders : ReloadStorePools(r)
    \/ \E r \in Reloaders : ReloadStoreHash(r)

SpecReload == Init /\ [][NextReload]_vars

----------------------------------------------------------------------------
(* Properties of get, ban and try_unban, under SpecPool.                   *)

Failed == {"banned", "checkout_error", "healthcheck_failed"}

\* The candidates of the call in progress: the addresses of its shard that
\* have its role.
CallCandidates ==
    { a \in Range(heap[call.pool].addresses[call.shard + 1]) : a.role = call.role }

\* C1: get(shard, role, pid) returns a lease with an Address of
\* addresses[shard] that has the requested role, or AllServersDown; it
\* returns AllServersDown only when every candidate of the shard and role
\* was, in this call, skipped as banned, failed at checkout or failed its
\* health check (trivially so when there is no candidate).
C1_GetReturns ==
    call.pc \in {"done", "banned"} =>
        /\ call.result # None
        /\ \A r \in call.result :
             IF r.ok
             THEN /\ r.address \in Range(heap[call.pool].addresses[call.shard + 1])
                  /\ r.address.role = call.role
             ELSE /\ r.err = AllServersDown
                  /\ \A a \in CallCandidates :
                       \E k \in DOMAIN call.tried :
                          /\ call.tried[k].address = a
                          /\ call.tried[k].outcome \in Failed

\* A get call that returned AllServersDown after skipping one banned replica
\* and failing the health check of the other.
C1_Witness ==
    /\ call.pc = "done"
    /\ \E r \in call.result : ~r.ok
    /\ Len(call.tried) = 2
    /\ {call.tried[1].outcome, call.tried[2].outcome} = {"banned", "healthcheck_failed"}

\* The client's own ban call acted on a primary in this step: a failed
\* checkout or health check of get, or the ban of its lease.
ClientBansPrimary ==
    /\ call.role = Primary
    /\ \/ call.pc \in {"checkout", "healthcheck"} /\ call'.pc = "loop"
       \/ call.pc = "done" /\ call'.pc = "banned"

\* C2: no Primary address is ever a key of a banlist map, is_banned is false
\* of every Primary, and ban on a Primary leaves the banlist as it was and
\* emits no client_ban_error.
C2_PrimaryNeverBanned ==
    /\ [](\A p \in DOMAIN heap :
            /\ \A a \in AddressesOf(heap[p]) :
                 a.role = Primary => ~is_banned(heap[p], a)
            /\ \A s \in DOMAIN heap[p].banlist :
                 \A a \in DOMAIN heap[p].banlist[s] : a.role # Primary)
    /\ [](call.role = Primary =>
            \A k \in DOMAIN call.stats : call.stats[k][1] # "client_ban_error")
    /\ [][ClientBansPrimary =>
            /\ heap'[call.pool].banlist = heap[call.pool].banlist
            /\ \A k \in DOMAIN call'.stats : call'.stats[k][1] # "client_ban_error"]_vars

\* The client banned the primary it held a lease on, in a pool where a
\* replica is banned.
C2_Witness ==
    /\ call.pc = "banned"
    /\ call.role = Primary
    /\ \E s \in DOMAIN heap[call.pool].banlist : heap[call.pool].banlist[s] # <<>>

\* C3: within one get call, when the attempt on a replica fails (checkout
\* error, health-check error or timeout), the replica is in banlist[shard],
\* stamped with the current instant, when get is back at the head of the
\* loop with the remaining candidates untouched; a session that failed its
\* health check is marked bad; and the call ends with a lease on another
\* replica of the shard unless every other candidate was banned or failed.
C3_FailedAttemptBans ==
    /\ [][(/\ call.pc \in {"checkout", "healthcheck"}
           /\ call'.pc = "loop"
           /\ call.role = Replica) =>
            LET a == TheAddress(call) IN
            /\ a \in DOMAIN heap'[call.pool].banlist[call.shard + 1]
            /\ heap'[call.pool].banlist[call.shard + 1][a] = now
            /\ call.pc = "healthcheck" => \A c \in call'.conn : c.bad
            /\ call'.candidates = call.candidates]_vars
    /\ [](call.pc = "done" /\ call.role = Replica =>
            \A r \in call.result :
              \A k \in DOMAIN call.tried :
                call.tried[k].outcome \in {"checkout_error", "healthcheck_failed"} =>
                  IF r.ok
                  THEN /\ r.address # call.tried[k].address
                       /\ r.address \in CallCandidates
                       /\ k < Len(call.tried)
                  ELSE \A a \in CallCandidates :
                         \E j \in DOMAIN call.tried :
                            /\ call.tried[j].address = a
                            /\ call.tried[j].outcome \in Failed)

\* A get call that failed the health check of one replica, marked its
\* session bad and returned a lease on the other replica.
C3_Witness ==
    /\ call.pc = "done"
    /\ Len(call.tried) = 2
    /\ call.tried[1].outcome = "healthcheck_failed"
    /\ call.tried[1].bad
    /\ call.tried[2].outcome = "leased"
    /\ is_banned(heap[call.pool], call.tried[1].address)

\* Replica a is banned at instant t, its entry is not older than ban_time,
\* and another replica of its shard is not banned.
BannedWithSpare(pool, a, t) ==
    /\ a.role = Replica
    /\ is_banned(pool, a)
    /\ Timestamp(t) - Timestamp(pool.banlist[a.shard + 1][a]) <= pool.settings.ban_time
    /\ \E b \in Range(pool.addresses[a.shard + 1]) :
         b.role = Replica /\ b # a /\ ~is_banned(pool, b)

\* C4, with every try_unban call taken as one step: while banned replica
\* A's entry is not older than ban_time and another replica of its shard is
\* not banned, no step of any task unbans A, and a get that reaches A skips
\* it: no client_waiting, no checkout, back to the head of the loop; a call
\* never returns an address it skipped.
C4_BannedIsSkipped ==
    /\ [][\A p \in DOMAIN heap \cap DOMAIN heap' :
            \A a \in AddressesOf(heap[p]) :
              BannedWithSpare(heap[p], a, now) =>
                /\ is_banned(heap'[p], a)
                /\ heap'[p].banlist[a.shard + 1][a] >= heap[p].banlist[a.shard + 1][a]]_vars
    /\ [][(/\ call.pc = "loop"
           /\ call' # call
           /\ call.candidates # <<>>
           /\ BannedWithSpare(heap[call.pool],
                              call.candidates[Len(call.candidates)], now)) =>
            /\ call'.pc = "loop"
            /\ call'.stats = call.stats
            /\ call'.conn = call.conn
            /\ call'.result = None
            /\ call'.tried = Append(call.tried,
                   Attempt(call.candidates[Len(call.candidates)], "banned",
                           FALSE, FALSE, FALSE))]_vars
    /\ [](call.pc = "done" =>
            \A r \in call.result : r.ok =>
              \A k \in DOMAIN call.tried :
                call.tried[k].outcome = "banned" => call.tried[k].address # r.address)

\* A get call that skipped a banned replica, which is still banned, and
\* returned a lease on the other one.
C4_Witness ==
    /\ call.pc = "done"
    /\ Len(call.tried) = 2
    /\ call.tried[1].outcome = "banned"
    /\ call.tried[2].outcome = "leased"
    /\ BannedWithSpare(heap[call.pool], call.tried[1].address, now)

\* This step is a try_unban call of the client.
UnbanCall == call.pc = "idle" /\ call'.pc = "unban"

\* Map m holds every replica of shard position s of the pool.
AllReplicasIn(pool, s, m) ==
    \A a \in Range(pool.addresses[s]) : a.role = Replica => a \in DOMAIN m

\* C5 as stated: if banlist[s] contains every replica of shard s, try_unban
\* on any address of shard s returns true and leaves banlist[s] empty.
C5_Original ==
    [][UnbanCall =>
        LET a == TheAddress(call')
            p == call'.pool
        IN  AllReplicasIn(heap[p], a.shard + 1, heap[p].banlist[a.shard + 1]) =>
              /\ \A r \in call'.result : r.ok
              /\ heap'[p].banlist[a.shard + 1] = <<>>]_vars

\* C5, amended: if banlist[s] contains every replica of shard s, try_unban
\* on any replica address of shard s returns true and leaves banlist[s]
\* empty.
C5_BulkUnban ==
    [][UnbanCall =>
        LET a == TheAddress(call')
            p == call'.pool
        IN  (/\ a.role = Replica
             /\ AllReplicasIn(heap[p], a.shard + 1, heap[p].banlist[a.shard + 1])) =>
              /\ \A r \in call'.result : r.ok
              /\ heap'[p].banlist[a.shard + 1] = <<>>]_vars

\* try_unban of a replica found both replicas of its shard banned, neither
\* entry old enough to expire, returned true and left the map empty.
C5_Witness ==
    /\ call.pc = "unban"
    /\ TheAddress(call).role = Replica
    /\ Cardinality(DOMAIN call.before) = 2
    /\ AllReplicasIn(heap[call.pool], TheAddress(call).shard + 1, call.before)
    /\ \A a \in DOMAIN call.before :
         Timestamp(now) - Timestamp(call.before[a]) <= heap[call.pool].settings.ban_time
    /\ \A r \in call.result : r.ok
    /\ heap[call.pool].banlist[TheAddress(call).shard + 1] = <<>>

\* C6: try_unban(a) called ban_time + 1 seconds or more after a's entry was
\* inserted returns true and leaves a absent; the test is on whole seconds
\* and strict: unless every replica of the shard is banned, try_unban(a)
\* returns true and removes the entry exactly when the whole seconds of now
\* exceed those of the entry by more than ban_time, and else returns false
\* and keeps the entry.
C6_BanExpiry ==
    [][UnbanCall =>
        LET a     == TheAddress(call')
            p     == call'.pool
            guard == heap[p].banlist[a.shard + 1]
            after == heap'[p].banlist[a.shard + 1]
            ret   == \A r \in call'.result : r.ok
        IN  a \in DOMAIN guard =>
              /\ now >= guard[a] + (heap[p].settings.ban_time + 1) * TicksPerSecond
                   => ret /\ a \notin DOMAIN after
              /\ ~AllReplicasIn(heap[p], a.shard + 1, guard) =>
                   /\ ret <=> (Timestamp(now) - Timestamp(guard[a])
                                  > heap[p].settings.ban_time)
                   /\ ret <=> a \notin DOMAIN after
                   /\ ~ret => after = guard]_vars

\* try_unban of a banned replica, called ban_time + 1 seconds after the ban
\* while the other replica was not banned, returned true and removed it.
C6_Witness ==
    /\ call.pc = "unban"
    /\ TheAddress(call) \in DOMAIN call.before
    /\ ~AllReplicasIn(heap[call.pool], TheAddress(call).shard + 1, call.before)
    /\ now >= call.before[TheAddress(call)]
                + (heap[call.pool].settings.ban_time + 1) * TicksPerSecond
    /\ \A r \in call.result : r.ok
    /\ ~is_banned(heap[call.pool], TheAddress(call))

\* C18: when get reaches a banned candidate and try_unban returns true, get
\* goes on to the checkout with the health check forced, and a session
\* checked out then is health-checked whatever its last activity and
\* returned only if the check succeeded; when try_unban returns false, get
\* goes back to the head of the loop with no client_waiting and no checkout.
C18_ForcedHealthCheck ==
    /\ [][(/\ call.pc = "loop"
           /\ call' # call
           /\ call.candidates # <<>>
           /\ is_banned(heap[call.pool], call.candidates[Len(call.candidates)])) =>
            IF try_unban(heap[call.pool], call.candidates[Len(call.candidates)],
                         now).ret
            THEN /\ call'.pc = "checkout"
                 /\ call'.force_healthcheck
                 /\ call'.address = Some(call.candidates[Len(call.candidates)])
            ELSE /\ call'.pc = "loop"
                 /\ call'.stats = call.stats
                 /\ call'.conn = call.conn
                 /\ call'.result = None]_vars
    /\ [][(call.pc = "checkout" /\ call.force_healthcheck /\ call' # call) =>
            /\ call'.pc \in {"healthcheck", "loop"}
            /\ call'.pc = "loop" =>
                 call'.tried[Len(call'.tried)].outcome = "checkout_error"]_vars
    /\ [](call.pc = "done" =>
            \A r \in call.result : r.ok =>
              LET last == call.tried[Len(call.tried)] IN
              /\ last.address = r.address
              /\ last.forced => (last.checked /\ ~last.bad)
              /\ last.checked =>
                   \E k \in DOMAIN call.stats : call.stats[k] = <<"server_tested">>)

\* A get call that found a replica banned, unbanned it, health-checked the
\* session it checked out and returned it.
C18_Witness ==
    /\ call.pc = "done"
    /\ call.banned # {}
    /\ \E r \in call.result :
         /\ r.ok
         /\ r.address \in call.banned
         /\ call.tried[Len(call.tried)].forced
         /\ call.tried[Len(call.tried)].checked

\* The addresses a get call has popped so far: those it is done with and
\* the one it is on.
Popped ==
    [k \in DOMAIN call.tried |-> call.tried[k].address]
      \o (IF call.pc \in {"checkout", "healthcheck"}
          THEN <<TheAddress(call)>> ELSE <<>>)

\* C21: a get call pops each candidate of the shard and role at most once
\* (one banned again during the call is not popped again), makes at most as
\* many attempts as there are candidates, and, its checkouts and health
\* checks completing, ends by returning a lease or AllServersDown.
C21_GetTerminates ==
    /\ [](call.pc \in {"loop", "checkout", "healthcheck", "done", "banned"} =>
            /\ Range(Popped) \subseteq CallCandidates
            /\ \A k \in DOMAIN Popped, j \in DOMAIN Popped :
                 Popped[k] = Popped[j] => k = j
            /\ Range(Popped) \cap Range(call.candidates) = {}
            /\ Len(Popped) + Len(call.candidates) = Cardinality(CallCandidates))
    /\ (call.pc \in {"loop", "checkout", "healthcheck"}
          ~> (call.pc = "done" /\ call.result # None))

\* A get call ended with AllServersDown after it had attempted both
\* replicas, the first of which is banned again by the failed attempt.
C21_Witness ==
    /\ call.pc = "done"
    /\ \E r \in call.result : ~r.ok
    /\ Len(call.tried) = 2
    /\ call.tried[1].outcome \in {"checkout_error", "healthcheck_failed"}
    /\ call.tried[2].outcome \in {"checkout_error", "healthcheck_failed"}
    /\ is_banned(heap[call.pool], call.tried[1].address)

\* C13: in every pool, after any sequence of get, ban, try_unban and bulk
\* clears, databases and addresses have one entry per shard, databases[s]
\* and addresses[s] have the same length for every shard s, and banlist has
\* exactly one map per shard.
C13_ShapeInvariant ==
    \A p \in DOMAIN heap :
      LET pool == heap[p] IN
      /\ Len(pool.databases) = Len(pool.addresses)
      /\ \A s \in DOMAIN pool.databases :
           Len(pool.databases[s]) = Len(pool.addresses[s])
      /\ DOMAIN pool.banlist = 1..Len(pool.databases)
      /\ Len(pool.databases) = pool.settings.shards

\* A bulk clear emptied the map of one shard of a pool of two shards.
C13_Witness ==
    /\ call.pc = "unban"
    /\ Len(heap[call.pool].databases) = 2
    /\ TheAddress(call).role = Replica
    /\ call.before # <<>>
    /\ AllReplicasIn(heap[call.pool], TheAddress(call).shard + 1, call.before)
    /\ heap[call.pool].banlist[TheAddress(call).shard + 1] = <<>>

----------------------------------------------------------------------------
(* Properties of get with no other task at work, under SpecSolo.           *)

\* C19 as stated: a get call returns a lease on a replica that was in
\* banlist[shard] when the call began only after a health check of the
\* leased session succeeded in that call, also when the replica's entry
\* went with the bulk clear that try_unban made for an earlier candidate.
C19_Original ==
    call.pc = "done" =>
      \A r \in call.result :
        (r.ok /\ r.address \in call.banned) =>
          LET last == call.tried[Len(call.tried)] IN
          /\ last.address = r.address
          /\ last.checked
          /\ ~last.bad

----------------------------------------------------------------------------
(* Properties of get under LeastOutstandingConnections, under SpecLoc.     *)

Reverse(seq) == [i \in DOMAIN seq |-> seq[Len(seq) + 1 - i]]

\* The candidates of the call in the order get reaches them: those it is
\* done with, the one it is on, and those left, from the end of the vector.
TrialOrder ==
    [k \in DOMAIN call.tried |-> call.tried[k].address]
      \o (IF call.pc \in {"checkout", "healthcheck"}
          THEN <<TheAddress(call)>> ELSE <<>>)
      \o Reverse(call.candidates)

\* C15: under LeastOutstandingConnections get reaches the candidates in
\* non-decreasing order of the busy count (connections minus idle, 0 when
\* idle exceeds connections) it saw when it ordered them; so the first
\* attempt is on a candidate of minimum busy count, and a call that leases
\* at its first attempt returns such a candidate (with A at 4 busy and B at
\* 0, B).
C15_LeastBusyFirst ==
    (call.pc \in {"loop", "checkout", "healthcheck", "done"}
       /\ heap[call.pool].settings.load_balancing_mode
            = "LeastOutstandingConnections") =>
      /\ Range(TrialOrder) = CallCandidates
      /\ \A a \in CallCandidates :
           call.busy[a] \in 0..pool_size
      /\ \A k \in DOMAIN TrialOrder, j \in DOMAIN TrialOrder :
           k < j => call.busy[TrialOrder[k]] <= call.busy[TrialOrder[j]]
      /\ (call.pc = "done" /\ Len(call.tried) = 1) =>
           \A r \in call.result : r.ok =>
             \A a \in CallCandidates : call.busy[r.address] <= call.busy[a]

\* With one replica at 4 busy sessions and the other at none, neither
\* banned, get(role = Replica) returned the idle one at its first attempt.
C15_Witness ==
    /\ call.pc = "done"
    /\ call.role = Replica
    /\ call.banned = {}
    /\ Len(call.tried) = 1
    /\ \E r \in call.result :
         /\ r.ok
         /\ call.busy[r.address] = 0
         /\ \E a \in CallCandidates : a # r.address /\ call.busy[a] = 4

----------------------------------------------------------------------------
(* Properties of from_config and the registry, under Spec.                 *)

\* The identifiers a configuration asks for.
ConfiguredIdents(cfg) ==
    UNION { { PoolIdentifier(n, cfg.pools[n].users[k]) :
                k \in DOMAIN cfg.pools[n].users } : n \in DOMAIN cfg.pools }

\* The names a caller may ask get_pool for: the configured ones and one
\* database and one user that no configuration has.
AskedDbs == PoolNames \cup {"db3"}
AskedUsers == {"u1", "u2", "u3"}

\* C7: once from_config has returned success, and until the next success,
\* get_pool(name, user) is Some (a live pool) for every (pool name, user)
\* pair of the configuration that call read and None for every other
\* identifier, those published by earlier reloads included.
C7_GetPoolAfterReload ==
    \A cfg \in loaded :
      \A db \in AskedDbs, user \in AskedUsers :
        IF PoolIdentifier(db, user) \in ConfiguredIdents(cfg)
        THEN /\ get_pool(db, user) # None
             /\ get_pool(db, user) \subseteq DOMAIN heap
        ELSE get_pool(db, user) = None

\* db1 is configured under PoolA alone, after PoolB had been loaded: the
\* identifiers of PoolB's second user are gone.
C7_Witness ==
    /\ \E cfg \in loaded : cfg.pools = ("db1" :> PoolA)
    /\ reload = "ok"
    /\ PoolB \in POOLS_HASH
    /\ get_pool("db1", "u2") = None
    /\ get_pool("db2", "u2") = None
    /\ get_pool("db1", "u1") # None

\* C8: a from_config that returns the validation error of a fresh pool
\* leaves POOLS and POOLS_HASH, and the pools they refer to, exactly as
\* they were, so get_pool and get_all_pools answer as before and a later
\* reload, which reads nothing else, decides as if the call had not been
\* made.
C8_FailedReloadKeepsRegistry ==
    [][(reload # AllServersDown /\ reload' = AllServersDown) =>
         /\ POOLS' = POOLS
         /\ POOLS_HASH' = POOLS_HASH
         /\ heap' = heap
         /\ get_all_pools' = get_all_pools
         /\ \A db \in AskedDbs, user \in AskedUsers :
              get_pool(db, user)' = get_pool(db, user)
         /\ loaded' = loaded]_vars

\* The last from_config failed over a published snapshot that holds a ban.
C8_Witness ==
    /\ reload = AllServersDown
    /\ POOLS # <<>>
    /\ PoolB \notin POOLS_HASH
    /\ \E p \in Range(POOLS) : \E s \in DOMAIN heap[p].banlist :
         heap[p].banlist[s] # <<>>

\* This step is a from_config call that changed what is published or how
\* the last call ended.
ReloadStep ==
    <<POOLS, POOLS_HASH, reload, loaded>>' # <<POOLS, POOLS_HASH, reload, loaded>>

\* C9: when a successful from_config reads a configuration in which a
\* pool's config equals the one read by the previous successful call, each
\* identifier of that pool is published with the same object as before (the
\* same bb8 pools and the same banlist, with the bans it holds): none is
\* built anew.
C9_UnchangedPoolIsReused ==
    [][(ReloadStep /\ reload' = "ok") =>
         \A c0 \in loaded, c1 \in loaded' :
           \A n \in DOMAIN c0.pools \cap DOMAIN c1.pools :
             c0.pools[n] = c1.pools[n] =>
               \A k \in DOMAIN c1.pools[n].users :
                 LET ident == PoolIdentifier(n, c1.pools[n].users[k])
                 IN  /\ POOLS'[ident] = POOLS[ident]
                     /\ POOLS'[ident] \in DOMAIN heap'
                     /\ heap'[POOLS'[ident]] = heap[POOLS[ident]]]_vars

\* db1 was kept by a reload that built db2: the two pools number their
\* addresses from 0 each, and db1 still holds a ban.
C9_Witness ==
    /\ reload = "ok"
    /\ get_pool("db1", "u1") # None
    /\ get_pool("db2", "u1") # None
    /\ \A p \in get_pool("db1", "u1") :
         /\ heap[p].addresses[1][1].id = 0
         /\ heap[p].banlist[1] # <<>>
    /\ \A p \in get_pool("db2", "u1") : heap[p].addresses[1][1].id = 0

\* An address without its id.
StripId(a) == [f \in DOMAIN a \ {"id"} |-> a[f]]

StripIds(addresses) ==
    [s \in DOMAIN addresses |->
       [i \in DOMAIN addresses[s] |-> StripId(addresses[s][i])]]

\* The pool is what from_config builds for (pool_name, username) from
\* pool_config and general, up to the ids of its addresses.
BuiltFrom(pool, pool_name, username, pool_config, general) ==
    LET fresh == BuildPool(pool_name, username, pool_config, general,
                           CHOOSE o \in Orders(DOMAIN pool_config.shards) : TRUE, 0)
    IN  /\ StripIds(pool.addresses) = StripIds(fresh.addresses)
        /\ pool.settings = fresh.settings

\* C10 as stated: after any sequence of successful reloads, every pool of
\* the published snapshot has the shards, servers, roles and pool-level
\* settings of the configuration last read for its identifier (a pool is
\* reused only if its config is the one it was built from).
C10_Original ==
    \A cfg \in loaded :
      \A n \in DOMAIN cfg.pools :
        \A k \in DOMAIN cfg.pools[n].users :
          LET username == cfg.pools[n].users[k]
              ident    == PoolIdentifier(n, username)
          IN  ident \in DOMAIN POOLS =>
                BuiltFrom(heap[POOLS[ident]], n, username, cfg.pools[n], cfg.general)

\* C12 as stated: in every published snapshot no two addresses, of the
\* same pool or of different pools, of fresh pools or of reused ones, carry
\* the same id.
C12_Original ==
    \A i1 \in DOMAIN POOLS, i2 \in DOMAIN POOLS :
      \A a1 \in AddressesOf(heap[POOLS[i1]]), a2 \in AddressesOf(heap[POOLS[i2]]) :
        a1.id = a2.id => (i1 = i2 /\ a1 = a2)

----------------------------------------------------------------------------
(* Properties of concurrent from_config calls, under SpecReload.           *)

\* The (pool map, config set) pairs that exist: the one the process starts
\* with and the one each from_config call that reached its stores built.
ProducedPairs ==
    { <<(<<>>), {}>> } \cup
    { <<tasks[r].new_pools, tasks[r].pools_hash>> :
        r \in { q \in Reloaders :
                  tasks[q].pc \in {"store_pools", "store_hash", "returned"} } }

\* C11 as stated: POOLS and POOLS_HASH are replaced together: at every
\* instant the published pair is the initial pair or the pair one
\* from_config call produced, never the pool map of one call with the
\* config set of another (or of none).
C11_Original ==
    <<POOLS, POOLS_HASH>> \in ProducedPairs

\* The (database, user) pairs for which from_config, reading cfg, may build
\* a pool afresh and validate it: those not published yet, and those whose
\* pool configuration is not in POOLS_HASH.
MayBuild(cfg) ==
    { x \in { <<m, v>> \in (DOMAIN cfg.pools) \X {"u1", "u2"} :
               v \in Range(cfg.pools[m].users) } :
        \/ PoolIdentifier(x[1], x[2]) \notin DOMAIN POOLS
        \/ cfg.pools[x[1]] \notin POOLS_HASH }

\* Those it builds afresh in whichever order it iterates over the pools:
\* no other pool of cfg has the same configuration (the first of two equal
\* ones puts it in the call's copy of the hash).
MustBuild(cfg) ==
    { x \in MayBuild(cfg) :
        \/ PoolIdentifier(x[1], x[2]) \notin DOMAIN POOLS
        \/ \A m \in DOMAIN cfg.pools \ {x[1]} : cfg.pools[m] # cfg.pools[x[1]] }

\* The hosts of the endpoints of a pool configuration.
HostsOf(pool_config) ==
    UNION { { pool_config.shards[k].servers[i].host :
                i \in DOMAIN pool_config.shards[k].servers } :
            k \in DOMAIN pool_config.shards }

\* The payload of the first endpoint of pool o, in (shard, server) order,
\* that is not on a host of down, if there is one.
FirstUp(o, down) ==
    LET all == UNION { { <<i, j>> : j \in DOMAIN o.addresses[i] } :
                       i \in DOMAIN o.addresses }
        at  == { x \in all : o.addresses[x[1]][x[2]].host \notin down }
    IN  { o.addresses[x[1]][x[2]].host :
            x \in { y \in at : \A z \in at :
                      y[1] < z[1] \/ (y[1] = z[1] /\ y[2] <= z[2]) } }

\* C22: validate returns AllServersDown if and only if the checkout failed
\* on every endpoint of the pool; otherwise server_info is the payload of
\* the first endpoint, in (shard, server) order, whose checkout succeeded.
\* So a from_config call fails exactly when all endpoints of a pool it
\* builds afresh are down, and else goes on to publish.
C22_ValidateAllDown ==
    [][\A r \in Reloaders :
         (tasks[r].pc = "idle" /\ tasks'[r].pc # "idle") =>
           \A cfg \in tasks'[r].config :
             /\ tasks'[r].pc = "failed" =>
                  /\ \E x \in MayBuild(cfg) :
                       HostsOf(cfg.pools[x[1]]) \subseteq unreachable
                  /\ reload' = AllServersDown
                  /\ tasks'[r].new_pools = <<>>
             /\ (\E x \in MustBuild(cfg) :
                   HostsOf(cfg.pools[x[1]]) \subseteq unreachable) =>
                  tasks'[r].pc = "failed"
             /\ tasks'[r].pc # "failed" =>
                  /\ tasks'[r].pc = "store_pools"
                  /\ \A x \in MustBuild(cfg) :
                       tasks'[r].new_pools[PoolIdentifier(x[1], x[2])]
                         \notin DOMAIN heap
                  /\ \A ident \in DOMAIN tasks'[r].new_pools :
                       tasks'[r].new_pools[ident] \notin DOMAIN heap =>
                         LET o == heap'[tasks'[r].new_pools[ident]]
                         IN  /\ o.server_info # None
                             /\ o.server_info = FirstUp(o, unreachable)]_vars

\* A from_config call returned and the pool it built is published with
\* its first endpoint down: server_info is the second endpoint's.
C22_Witness ==
    /\ \E r \in Reloaders : tasks[r].pc = "returned"
    /\ "h1" \in unreachable
    /\ \E ident \in DOMAIN POOLS :
         LET o == heap[POOLS[ident]]
         IN  /\ o.addresses[1][1].host = "h1"
             /\ o.server_info = Some("h2")

----------------------------------------------------------------------------
(* The settings and the ban state of published pools over reloads, under   *)
(* Spec.                                                                   *)

\* C23 as stated: after a successful from_config every published pool, a
\* reused one included, has the healthcheck_delay, healthcheck_timeout and
\* ban_time of the [general] section that the call read.
C23_Original ==
    \A cfg \in loaded : \A ident \in DOMAIN POOLS :
        LET settings == heap[POOLS[ident]].settings
        IN  /\ settings.healthcheck_delay = cfg.general.healthcheck_delay
            /\ settings.healthcheck_timeout = cfg.general.healthcheck_timeout
            /\ settings.ban_time = cfg.general.ban_time

\* C24: a successful from_config that reuses a pool (its configuration is
\* in POOLS_HASH and its identifier is published) publishes the same
\* object, which is what a handle obtained before and one obtained after
\* both refer to, so each observes the bans and unbans made through the
\* other; the banlist of every pool published again with the same object is
\* as it was, entry by entry and timestamp by timestamp; and every other
\* published pool is a new object whose banlist is empty in every shard.
C24_ReuseKeepsBans ==
    [][(ReloadStep /\ reload' = "ok") =>
         \A c1 \in loaded' : \A n \in DOMAIN c1.pools :
           \A k \in DOMAIN c1.pools[n].users :
             LET ident == PoolIdentifier(n, c1.pools[n].users[k])
             IN  /\ (ident \in DOMAIN POOLS /\ c1.pools[n] \in POOLS_HASH) =>
                      POOLS'[ident] = POOLS[ident]
                 /\ IF ident \in DOMAIN POOLS /\ POOLS'[ident] = POOLS[ident]
                    THEN heap'[POOLS'[ident]].banlist = heap[POOLS[ident]].banlist
                    ELSE /\ POOLS'[ident] \notin DOMAIN heap
                         /\ \A s \in DOMAIN heap'[POOLS'[ident]].banlist :
                              heap'[POOLS'[ident]].banlist[s] = <<>>]_vars

\* The last reload read db1 under PoolA and db2 under PoolB: db1 holds the
\* bans of both its replicas and the pools of db2 hold none.
C24_Witness ==
    /\ reload = "ok"
    /\ \E cfg \in loaded : cfg.pools = ("db1" :> PoolA @@ "db2" :> PoolB)
    /\ get_pool("db2", "u2") # None
    /\ \A p \in get_pool("db1", "u1") : Cardinality(DOMAIN heap[p].banlist[1]) = 2
    /\ \A ident \in {<<"db2", "u1">>, <<"db2", "u2">>} :
         \A s \in DOMAIN heap[POOLS[ident]].banlist :
           heap[POOLS[ident]].banlist[s] = <<>>

----------------------------------------------------------------------------
(* Properties of a freshly built pool, under SpecBuild.                    *)

\* The configuration of the one pool that was loaded.
LoadedPool == (CHOOSE cfg \in loaded : TRUE).pools["db1"]

\* The key of the loaded pool that has exactly n keys below it as integers.
KeyOfRank(n) ==
    CHOOSE k \in DOMAIN LoadedPool.shards :
      Cardinality({ j \in DOMAIN LoadedPool.shards : ParseKey(j) < ParseKey(k) }) = n

\* C14: in a freshly built pool, position i of databases and addresses
\* holds the servers of the configured shard whose key is the i-th
\* smallest as an integer (key "10" after key "2"), whatever the order in
\* which the configuration map was iterated.
C14_CanonicalShardOrder ==
    \A p \in Range(POOLS) :
      /\ Len(heap[p].addresses) = Cardinality(DOMAIN LoadedPool.shards)
      /\ \A s \in DOMAIN heap[p].addresses :
           LET shard == LoadedPool.shards[KeyOfRank(s - 1)] IN
           /\ Len(heap[p].addresses[s]) = Len(shard.servers)
           /\ \A i \in DOMAIN heap[p].addresses[s] :
                /\ heap[p].addresses[s][i].database = shard.database
                /\ heap[p].addresses[s][i].host = shard.servers[i].host
                /\ heap[p].addresses[s][i].role = shard.servers[i].role
                /\ heap[p].databases[s][i].address = heap[p].addresses[s][i]

\* A pool built from shards "0", "2" and "10": "2" is at position 1 and
\* "10" at position 2.
C14_Witness ==
    /\ loaded # None
    /\ DOMAIN LoadedPool.shards = {<<0>>, <<2>>, <<1, 0>>}
    /\ \A p \in Range(POOLS) :
         /\ heap[p].addresses[2][1].database = <<2>>
         /\ heap[p].addresses[3][1].database = <<1, 0>>

\* C16 as stated: walking a shard's server list in order, the k-th replica
\* has replica_number k - 1, and the primary has replica_number 0 wherever
\* it stands in the list.
C16_Original ==
    \A p \in Range(POOLS) :
      \A s \in DOMAIN heap[p].addresses :
        \A i \in DOMAIN heap[p].addresses[s] :
          LET servers == heap[p].addresses[s]
              before  == Cardinality({ j \in 1..(i - 1) : servers[j].role = Replica })
          IN  servers[i].replica_number =
                 IF servers[i].role = Replica THEN before ELSE 0

\* C20 as stated: in a freshly built pool, for every set of configured
\* shard keys, addresses[s][i].shard = s and addresses[s][i].address_index
\* = i, so that indexing databases by a candidate's shard and address_index
\* is in range and gives the bb8 pool of that candidate.
C20_Original ==
    /\ \A p \in Range(POOLS) :
         \A s \in DOMAIN heap[p].addresses :
           \A i \in DOMAIN heap[p].addresses[s] :
             /\ heap[p].addresses[s][i].shard = s - 1
             /\ heap[p].addresses[s][i].address_index = i - 1
    /\ call.pc = "indexed" =>
         /\ \A r \in call.result : r.ok
         /\ call.conn # None
         /\ \A c \in call.conn : c.address = TheAddress(call)

----------------------------------------------------------------------------
(* Properties of try_unban among concurrent tasks, under SpecUnban.        *)

\* C4 as stated: once replica A is banned, and as long as its entry is not
\* older than ban_time and another replica of its shard is not banned, A
\* stays banned (so that every get skips it), whatever the tasks at work
\* on the pool do.
C4_Original ==
    [][\A p \in DOMAIN heap \cap DOMAIN heap' :
         \A a \in AddressesOf(heap[p]) :
           BannedWithSpare(heap[p], a, now) => is_banned(heap'[p], a)]_vars

\* This step is the writer hold of the client's try_unban, and it removes
\* at least one entry.
UnbanWrite ==
    /\ call.pc \in {"unban_clear", "unban_remove"}
    /\ call'.pc = "unban"
    /\ heap'[call.pool].banlist # heap[call.pool].banlist

\* C17 as stated: when try_unban clears banlist[s] or removes an entry, the
\* condition that triggered it holds at the moment of the write (every
\* replica of s is banned, or the entry is older than ban_time), and no
\* entry that another task inserted or refreshed since the reader hold is
\* removed.
C17_Original ==
    [][UnbanWrite =>
        LET pool  == heap[call.pool]
            a     == TheAddress(call)
            guard == pool.banlist[a.shard + 1]
            after == heap'[call.pool].banlist[a.shard + 1]
        IN  /\ call.pc = "unban_clear" => AllReplicasIn(pool, a.shard + 1, guard)
            /\ call.pc = "unban_remove" =>
                 exceeded_ban_time(guard[a], now, pool.settings.ban_time)
            /\ \A x \in DOMAIN guard \ DOMAIN after :
                 x \in DOMAIN call.before /\ guard[x] = call.before[x]]_vars

====
